---- MODULE Spec2Model ----
(***************************************************************************)
(* Schema inference of pypelayer (pypelayer/schema.py) over the objects    *)
(* that pypelayer/s3_util.py samples from an S3 bucket.                    *)
(*                                                                         *)
(* A run is one invocation: objects are put under the prefix of a bucket,  *)
(* then generate_schema_from_json or generate_schema_from_csv is called    *)
(* once and either returns a dict or raises.                               *)
(*                                                                         *)
(* Values are abstracted to the kinds that the dataframe library           *)
(* distinguishes when it assigns a dtype:                                  *)
(*   "null"   JSON null / empty CSV field / NaN / NA / NaT                 *)
(*   "bool"   true / false                                                 *)
(*   "int"    a number with an integral value                              *)
(*   "float"  a number with a fractional part                              *)
(*   "str"    a string that pandas.to_datetime rejects                     *)
(*   "ts"     a string in (timezone-less) ISO-8601 form, which             *)
(*            pandas.to_datetime accepts under the format of line 110      *)
(*   "tstz"   such a string with the UTC designator Z at its end, which    *)
(*            pandas.to_datetime parses into a timezone-aware value        *)
(*   "empty"  the empty string, which pandas.to_datetime reads as NaT      *)
(*   "list"   a JSON array (json_normalize does not descend into it)       *)
(*   "dt"     a parsed datetime64 value (only after _parse_datetime)       *)
(*   "dtz"    a parsed timezone-aware value (only after _parse_datetime)   *)
(***************************************************************************)
EXTENDS Naturals, Sequences, FiniteSets, TLC

\* Bounds of the model.
MaxObjs == 3        \* objects listed under the prefix
MaxRows == 2        \* records (JSON) or data rows (CSV) in the bucket
MaxCells == 2       \* values in the bucket
MaxOverrides == 2   \* --column-type options of one call
MaxFiltered == 1    \* listed objects that the sampler leaves out

VARIABLES fmt, bucket, pc, args, result, local, cli

vars == <<fmt, bucket, pc, args, result, local, cli>>

----------------------------------------------------------------------------
\* Generic helpers.

Range(s) == {s[i] : i \in DOMAIN s}

SeqsUpTo(S, n) == UNION {[1..k -> S] : k \in 0..n}

RECURSIVE Flatten(_)
Flatten(ss) == IF ss = <<>> THEN <<>> ELSE Head(ss) \o Flatten(Tail(ss))

RECURSIVE AppendNew(_, _)
\* seq followed by the items of xs that are not yet in it, in order.
AppendNew(seq, xs) ==
    IF xs = <<>> THEN seq
    ELSE IF Head(xs) \in Range(seq) THEN AppendNew(seq, Tail(xs))
    ELSE AppendNew(Append(seq, Head(xs)), Tail(xs))

RECURSIVE SumSeq(_)
SumSeq(ns) == IF ns = <<>> THEN 0 ELSE Head(ns) + SumSeq(Tail(ns))

----------------------------------------------------------------------------
\* The type table.

\* The table with the entry of "object" set to the type of strings.
PANDAS_TO_SNOWFLAKE_ObjectAsVarchar ==
    [d \in {"Int64", "Float64", "string", "boolean", "object", "datetime64[ns]"} |->
        CASE d = "Int64" -> "NUMBER(38,0)"
          [] d = "Float64" -> "NUMBER(38,8)"
          [] d = "string" -> "VARCHAR"
          [] d = "boolean" -> "BOOLEAN"
          [] d = "object" -> "VARCHAR"
          [] d = "datetime64[ns]" -> "TIMESTAMP WITHOUT TIME ZONE"]

PANDAS_TO_SNOWFLAKE ==
    [d \in {"Int64", "Float64", "string", "boolean", "object", "datetime64[ns]"} |->
        CASE d = "Int64" -> "NUMBER(38,0)"
          [] d = "Float64" -> "NUMBER(38,8)"
          [] d = "string" -> "VARCHAR"
          [] d = "boolean" -> "BOOLEAN"
          [] d = "object" -> "VARIANT"
          [] d = "datetime64[ns]" -> "TIMESTAMP WITHOUT TIME ZONE"]

----------------------------------------------------------------------------
\* Results of a call: a returned dict or a raised exception.

NoResult ==
    [status |-> "none", error |-> "", message |-> <<>>,
     keys |-> {}, schema |-> <<>>, top_level_array |-> FALSE]

Raise(error, message) ==
    [status |-> "raised", error |-> error, message |-> message,
     keys |-> {}, schema |-> <<>>, top_level_array |-> FALSE]

Return(keys, schema, top_level_array) ==
    [status |-> "returned", error |-> "", message |-> <<>>,
     keys |-> keys, schema |-> schema, top_level_array |-> top_level_array]

----------------------------------------------------------------------------
\* S3: the objects under the prefix, in listing (key) order.

BucketName(f) == f \o "_data"

Prefix == "sample/"

NoBody == [root |-> "none", header |-> <<>>, recs |-> <<>>]

\* The key of the i-th listed object.
KeyOf(i, ext) == Prefix \o "f" \o ToString(i) \o "." \o ext

\* A listing that does not stop at MaxKeys.
list_objects_v2_unlimited(objs, limit) ==
    [i \in 1..Len(objs) |->
        [Key |-> KeyOf(i, objs[i].ext), Ext |-> objs[i].ext,
         Size |-> objs[i].size, Body |-> objs[i].body]]

\* response["Contents"] of list_objects_v2(Bucket, Prefix, MaxKeys=limit).
list_objects_v2(objs, limit) ==
    [i \in 1..(IF Len(objs) < limit THEN Len(objs) ELSE limit) |->
        [Key |-> KeyOf(i, objs[i].ext), Ext |-> objs[i].ext,
         Size |-> objs[i].size, Body |-> objs[i].body]]

RECURSIVE FilterObjects(_, _, _)
FilterObjects(contents, bucket_name, suffix) ==
    IF contents = <<>> THEN <<>>
    ELSE LET obj == Head(contents)
             rest == FilterObjects(Tail(contents), bucket_name, suffix)
         IN IF obj.Ext = suffix /\ obj.Size > 0
            THEN <<[bucket_name |-> bucket_name, key |-> obj.Key, body |-> obj.Body]>> \o rest
            ELSE rest

list_non_empty_objects(objs, s3_bucket_name, suffix, limit) ==
    FilterObjects(list_objects_v2(objs, limit), s3_bucket_name, suffix)

----------------------------------------------------------------------------
\* DataFrames: the columns in order, the number of rows, and per column
\* the dtype and the values (one per row).

NonNull(vals) == Range(vals) \ {"null"}

HasNull(vals) == "null" \in Range(vals)

NullsOf(k) == [i \in 1..k |-> "null"]

\* The dtype numpy/pandas gives an array of Python values when a frame is
\* built or an object column is soft-converted (lib.maybe_convert_objects).
NumpyDtype(vals) ==
    LET nn == NonNull(vals) IN
    IF nn = {} THEN "object"
    ELSE IF nn = {"bool"} THEN (IF HasNull(vals) THEN "object" ELSE "bool")
    ELSE IF nn = {"int"} THEN (IF HasNull(vals) THEN "float64" ELSE "int64")
    ELSE IF nn \subseteq {"int", "float"} THEN "float64"
    ELSE "object"

\* json_normalize names a leaf by the keys on the way to it, joined by ".".
RECURSIVE JoinPath(_)
JoinPath(path) ==
    IF Len(path) = 1 THEN path[1] ELSE path[1] \o "." \o JoinPath(Tail(path))

\* A record flattened with its leaves left in document order.
FlatRecordInDocumentOrder(rec) ==
    [i \in 1..Len(rec) |-> [name |-> JoinPath(rec[i].path), v |-> rec[i].v]]

\* json_normalize(data, max_level=0): nested objects are left as values of
\* their top-level key.
FlatRecordMaxLevel0(rec) ==
    [i \in 1..Len(rec) |->
        [name |-> rec[i].path[1],
         v |-> IF Len(rec[i].path) > 1 THEN "list" ELSE rec[i].v]]

\* _normalise_json_ordered: the top-level keys whose values are not objects
\* come first, then the leaves of the nested objects, each in document order.
FlatRecord(rec) ==
    LET Top(cell) == Len(cell.path) = 1
        Nested(cell) == Len(cell.path) > 1
        ordered == SelectSeq(rec, Top) \o SelectSeq(rec, Nested)
    IN [i \in 1..Len(ordered) |-> [name |-> JoinPath(ordered[i].path), v |-> ordered[i].v]]

RecordNames(flat) == [i \in 1..Len(flat) |-> flat[i].name]

ValueAt(flat, c) ==
    IF \E j \in DOMAIN flat : flat[j].name = c
    THEN flat[CHOOSE j \in DOMAIN flat : flat[j].name = c].v
    ELSE "null"

RECURSIVE FirstAppearance(_)
\* The names of a sequence of name sequences, in order of first appearance.
FirstAppearance(nameSeqs) ==
    IF nameSeqs = <<>> THEN <<>>
    ELSE AppendNew(FirstAppearance(SubSeq(nameSeqs, 1, Len(nameSeqs) - 1)),
                   nameSeqs[Len(nameSeqs)])

\* pd.DataFrame(list of flat dicts).
DataFrame(flats) ==
    LET columns == FirstAppearance([i \in 1..Len(flats) |-> RecordNames(flats[i])])
        ColVals(c) == [i \in 1..Len(flats) |-> ValueAt(flats[i], c)]
    IN [columns |-> columns, n |-> Len(flats),
        data |-> [c \in Range(columns) |->
                    [dtype |-> NumpyDtype(ColVals(c)), vals |-> ColVals(c)]]]

\* pd.json_normalize(data) raises NotImplementedError for data that is
\* neither a dict nor a list: a root that is a number, a string, a boolean
\* or null.
NormalizeRaises(data) == data.root = "scalar"

\* pd.json_normalize(data): one row per element of a root array, one row
\* for a root object; nested keys are flattened, arrays are leaves.
json_normalize(data) ==
    DataFrame([i \in 1..Len(data.recs) |-> FlatRecord(data.recs[i])])

\* A CSV field that read_csv leaves as text.
FieldText(k) == IF k \in {"null", "ts", "tstz"} THEN k ELSE "str"

\* The column read_csv makes of the fields of one file: booleans and numbers
\* are parsed only when every non-empty field of the column is one.
ParseFields(fields) ==
    LET nn == NonNull(fields) IN
    IF Len(fields) = 0 THEN [dtype |-> "object", vals |-> fields]
    ELSE IF nn = {} THEN [dtype |-> "float64", vals |-> fields]
    ELSE IF nn = {"bool"}
         THEN [dtype |-> IF HasNull(fields) THEN "object" ELSE "bool", vals |-> fields]
    ELSE IF nn \subseteq {"int", "float"}
         THEN [dtype |-> IF nn = {"int"} /\ ~HasNull(fields) THEN "int64" ELSE "float64",
               vals |-> fields]
    ELSE [dtype |-> "object", vals |-> [i \in DOMAIN fields |-> FieldText(fields[i])]]

\* pd.read_csv(body, header=0).
read_csv(body) ==
    LET n == Len(body.recs)
        Pos(c) == CHOOSE j \in DOMAIN body.header : body.header[j] = c
    IN [columns |-> body.header, n |-> n,
        data |-> [c \in Range(body.header) |->
                    ParseFields([i \in 1..n |-> body.recs[i][Pos(c)]])]]

\* The dtype of a concatenated column: the common dtype of the frames that
\* have it, made able to hold NaN when a frame lacks it.
CommonDtype(dtypes, missing) ==
    IF Cardinality(dtypes) = 1
    THEN LET d == CHOOSE x \in dtypes : TRUE IN
         IF ~missing THEN d
         ELSE IF d = "int64" THEN "float64"
         ELSE IF d = "bool" THEN "object"
         ELSE d
    ELSE IF dtypes \subseteq {"int64", "float64"} THEN "float64"
    ELSE "object"

\* pd.concat(frames, join="inner"): only the columns that every frame has.
concat_inner(frames) ==
    LET InAll(c) == \A i \in 1..Len(frames) : c \in Range(frames[i].columns)
        columns == SelectSeq(FirstAppearance([i \in 1..Len(frames) |-> frames[i].columns]),
                             InAll)
    IN [columns |-> columns,
        n |-> SumSeq([i \in 1..Len(frames) |-> frames[i].n]),
        data |-> [c \in Range(columns) |->
                    [dtype |-> CommonDtype({frames[i].data[c].dtype : i \in 1..Len(frames)}, FALSE),
                     vals |-> Flatten([i \in 1..Len(frames) |-> frames[i].data[c].vals])]]]

\* pd.concat(frames): union of the columns, rows of the frames in order.
concat(frames) ==
    LET columns == FirstAppearance([i \in 1..Len(frames) |-> frames[i].columns])
        Has(i, c) == c \in Range(frames[i].columns)
        ColVals(c) == Flatten([i \in 1..Len(frames) |->
                        IF Has(i, c) THEN frames[i].data[c].vals
                        ELSE NullsOf(frames[i].n)])
        ColDtypes(c) == {frames[i].data[c].dtype :
                            i \in {k \in 1..Len(frames) : Has(k, c)}}
        Missing(c) == \E i \in 1..Len(frames) : ~Has(i, c)
    IN [columns |-> columns,
        n |-> SumSeq([i \in 1..Len(frames) |-> frames[i].n]),
        data |-> [c \in Range(columns) |->
                    [dtype |-> CommonDtype(ColDtypes(c), Missing(c)),
                     vals |-> ColVals(c)]]]

\* A conversion that makes strings of every column that is not numeric or
\* boolean, mixed ones included.
ConvertDtypeMixedAsString(dtype, vals) ==
    LET soft == IF dtype = "object" THEN NumpyDtype(vals) ELSE dtype
        nn == NonNull(vals)
    IN IF soft = "int64" THEN "Int64"
       ELSE IF soft = "float64" THEN (IF "float" \in nn THEN "Float64" ELSE "Int64")
       ELSE IF soft = "bool" THEN "boolean"
       ELSE IF nn = {"bool"} THEN "boolean"
       ELSE IF nn # {} THEN "string"
       ELSE "object"

\* Series.convert_dtypes: soft-convert an object column, then pick the
\* nullable dtype; an object column of mixed values stays object.
ConvertDtype(dtype, vals) ==
    LET soft == IF dtype = "object" THEN NumpyDtype(vals) ELSE dtype
        nn == NonNull(vals)
    IN IF soft = "int64" THEN "Int64"
       ELSE IF soft = "float64" THEN (IF "float" \in nn THEN "Float64" ELSE "Int64")
       ELSE IF soft = "bool" THEN "boolean"
       ELSE IF nn # {} /\ nn \subseteq {"str", "ts", "tstz", "empty"} THEN "string"
       ELSE IF nn = {"bool"} THEN "boolean"
       ELSE "object"

convert_dtypes(df) ==
    [df EXCEPT !.data = [c \in DOMAIN df.data |->
        [dtype |-> ConvertDtype(df.data[c].dtype, df.data[c].vals),
         vals |-> df.data[c].vals]]]

----------------------------------------------------------------------------
\* pypelayer/schema.py

\* pd.to_datetime(column, format=...) raises ValueError on a string that is
\* neither a timestamp nor empty; an empty string or a null becomes NaT.
ToDatetimeRaises(vals) == "str" \in Range(vals)

to_datetime(vals) ==
    [i \in DOMAIN vals |->
        IF vals[i] = "ts" THEN "dt" ELSE IF vals[i] = "tstz" THEN "dtz" ELSE "null"]

\* The dtype of what pd.to_datetime returns: timezone-aware when the strings
\* carry an offset, an object array of datetimes when only some of them do.
ToDatetimeDtype(vals) ==
    IF "tstz" \notin Range(vals) THEN "datetime64[ns]"
    ELSE IF "ts" \notin Range(vals) THEN "datetime64[ns, UTC]"
    ELSE "object"

parse_datetime(df) ==
    [df EXCEPT !.data = [c \in DOMAIN df.data |->
        IF df.data[c].dtype = "string" /\ ~ToDatetimeRaises(df.data[c].vals)
        THEN [dtype |-> ToDatetimeDtype(df.data[c].vals),
              vals |-> to_datetime(df.data[c].vals)]
        ELSE df.data[c]]]

\* len(df) == df[column].isna().sum()
is_empty(df, column) ==
    df.n = Cardinality({i \in 1..df.n : df.data[column].vals[i] = "null"})

SchemaDtype(df, column) ==
    IF is_empty(df, column) THEN "object" ELSE df.data[column].dtype

\* The lookup with a default: PANDAS_TO_SNOWFLAKE.get(dtype, "VARIANT").
get_schema_from_df_with_default(df) ==
    [raised |-> FALSE,
     schema |-> [i \in 1..Len(df.columns) |->
        <<df.columns[i],
          IF SchemaDtype(df, df.columns[i]) \in DOMAIN PANDAS_TO_SNOWFLAKE
          THEN PANDAS_TO_SNOWFLAKE[SchemaDtype(df, df.columns[i])]
          ELSE "VARIANT">>]]

\* The dict of column names and Snowflake types, as a sequence of pairs in
\* insertion order; a dtype that is no key of the table raises KeyError.
get_schema_from_df(df) ==
    IF \E c \in Range(df.columns) : SchemaDtype(df, c) \notin DOMAIN PANDAS_TO_SNOWFLAKE
    THEN [raised |-> TRUE, schema |-> <<>>]
    ELSE [raised |-> FALSE,
          schema |-> [i \in 1..Len(df.columns) |->
                        <<df.columns[i], PANDAS_TO_SNOWFLAKE[SchemaDtype(df, df.columns[i])]>>]]

SchemaKeys(schema) == {schema[i][1] : i \in DOMAIN schema}

\* schema.setdefault(key, value): an existing key keeps its value.
SetItemDefault(schema, key, value) ==
    IF key \in SchemaKeys(schema) THEN schema ELSE Append(schema, <<key, value>>)

\* An assignment that is made only for the keys the schema already has.
SetItemExisting(schema, key, value) ==
    IF key \in SchemaKeys(schema)
    THEN [i \in DOMAIN schema |-> IF schema[i][1] = key THEN <<key, value>> ELSE schema[i]]
    ELSE schema

\* schema[key] = value
SetItem(schema, key, value) ==
    IF key \in SchemaKeys(schema)
    THEN [i \in DOMAIN schema |-> IF schema[i][1] = key THEN <<key, value>> ELSE schema[i]]
    ELSE Append(schema, <<key, value>>)

RECURSIVE update(_, _)
\* schema.update(override)
update(schema, override) ==
    IF override = <<>> THEN schema
    ELSE update(SetItem(schema, Head(override)[1], Head(override)[2]), Tail(override))

all(flags) == \A i \in DOMAIN flags : flags[i]

any(flags) == \E i \in DOMAIN flags : flags[i]

\* isinstance(data, list) per sampled document.
is_list(json_data) == [i \in DOMAIN json_data |-> json_data[i].root = "array"]

\* The mode read off the first document alone.
TopLevelArrayModeFirst(flags) == IF flags[1] THEN "all" ELSE "none"

\* The mode without the check that the documents agree.
TopLevelArrayModeAny(flags) == IF any(flags) THEN "all" ELSE "none"

TopLevelArrayMode(flags) ==
    IF all(flags) THEN "all" ELSE IF any(flags) THEN "mixed" ELSE "none"

\* The same list with the test inverted: the files with a root array.
files_with_arrays(flags, s3_objects) ==
    LET Pick(i) == IF flags[i]
                   THEN <<s3_objects[i].bucket_name \o "/" \o s3_objects[i].key>>
                   ELSE <<>>
    IN Flatten([i \in DOMAIN s3_objects |-> Pick(i)])

files_without_arrays(flags, s3_objects) ==
    LET Pick(i) == IF flags[i] THEN <<>>
                   ELSE <<s3_objects[i].bucket_name \o "/" \o s3_objects[i].key>>
    IN Flatten([i \in DOMAIN s3_objects |-> Pick(i)])

\* The two lines of text that line 81-84 put in front of "\n".
MessageText ==
    <<"Top level array has to be present in all files or none of them.",
      "Files without top level arrays:">>

RECURSIVE Join(_, _)
\* separator.join(items), as the sequence of its parts.
Join(separator, items) ==
    IF items = <<>> THEN <<>>
    ELSE IF Len(items) = 1 THEN items
    ELSE <<Head(items)>> \o separator \o Join(separator, Tail(items))

\* The adjacent literals of lines 81-85 are one string, so the text is the
\* separator of the join and not its prefix.
ErrorMessage(files) == Join(MessageText, files)

\* "s3_objects is None", which no list satisfies.
NoSampleDataIsNone(s3_objects) == FALSE

NoSampleData(s3_objects) == s3_objects = <<>>

\* Lines 37-41 and 91-93: the frame that the schema is read from.
InferenceFrame(frames) == parse_datetime(convert_dtypes(concat(frames)))

\* Lines 42-43 and 94-95: map the dtypes, then apply the overrides.
InferSchema(frames, override) ==
    LET got == get_schema_from_df(InferenceFrame(frames))
    IN [raised |-> got.raised, schema |-> update(got.schema, override)]

generate_schema_from_csv(objs, s3_bucket_name, suffix, limit, override) ==
    LET s3_objects == list_non_empty_objects(objs, s3_bucket_name, suffix, limit) IN
    IF NoSampleData(s3_objects) THEN Raise("FileNotFoundError", <<>>)
    ELSE LET got == InferSchema([i \in DOMAIN s3_objects |-> read_csv(s3_objects[i].body)],
                                override)
         IN IF got.raised THEN Raise("KeyError", <<>>)
            ELSE Return({"schema"}, got.schema, FALSE)

generate_schema_from_json(objs, s3_bucket_name, suffix, limit, override) ==
    LET s3_objects == list_non_empty_objects(objs, s3_bucket_name, suffix, limit) IN
    IF NoSampleData(s3_objects) THEN Raise("FileNotFoundError", <<>>)
    ELSE LET json_data == [i \in DOMAIN s3_objects |-> s3_objects[i].body]
             flags == is_list(json_data)
             mode == TopLevelArrayMode(flags)
         IN IF mode = "mixed"
            THEN Raise("ValueError", ErrorMessage(files_without_arrays(flags, s3_objects)))
            ELSE IF \E i \in DOMAIN json_data : NormalizeRaises(json_data[i])
            THEN Raise("NotImplementedError", <<>>)
            ELSE LET got == InferSchema([i \in DOMAIN json_data |-> json_normalize(json_data[i])],
                                        override)
                 IN IF got.raised THEN Raise("KeyError", <<>>)
                    ELSE Return({"schema", "top_level_array"}, got.schema, mode = "all")

----------------------------------------------------------------------------
\* The inputs of the model.

JsonKinds == {"null", "bool", "int", "float", "str", "ts", "tstz", "empty", "list"}

CsvKinds == {"null", "bool", "int", "float", "str", "ts", "tstz"}

\* The second column holds strings only.
SecondKinds == {"str", "ts"}

PathA == <<"a">>

PathB == <<"b", "c">>

PathD == <<"b", "d", "e">>

\* A nested key holds a string or an array; a key two levels down a string.
NestedKinds == {"str", "ts", "list"}

JsonCells ==
    {[path |-> PathA, v |-> k] : k \in JsonKinds}
        \cup {[path |-> PathB, v |-> k] : k \in NestedKinds}
        \cup {[path |-> PathD, v |-> "str"]}

\* A JSON object by its leaves, in document order.
JsonRecords ==
    {r \in SeqsUpTo(JsonCells, 2) :
        /\ Len(r) <= MaxCells
        /\ \A i, j \in DOMAIN r : i # j => r[i].path # r[j].path}

CellsOf(recs) == SumSeq([i \in DOMAIN recs |-> Len(recs[i])])

JsonDocs ==
    {[root |-> "scalar", header |-> <<>>, recs |-> <<>>]}
        \cup {[root |-> "object", header |-> <<>>, recs |-> <<r>>] : r \in JsonRecords}
        \cup {[root |-> "array", header |-> <<>>, recs |-> rs] :
                rs \in {x \in SeqsUpTo(JsonRecords, MaxRows) : CellsOf(x) <= MaxCells}}

CsvHeaders == {<<"a">>, <<"b">>, <<"a", "b">>, <<"b", "a">>}

FieldKinds(c) == IF c = "a" THEN CsvKinds ELSE SecondKinds \cup {"null"}

CsvRows(header) ==
    {r \in [1..Len(header) -> CsvKinds] :
        \A j \in DOMAIN header : r[j] \in FieldKinds(header[j])}

CsvDocs ==
    UNION {{[root |-> "csv", header |-> h, recs |-> rs] :
                rs \in {x \in SeqsUpTo(CsvRows(h), MaxRows) : CellsOf(x) <= MaxCells}} :
           h \in CsvHeaders}

Docs(f) == IF f = "json" THEN JsonDocs ELSE CsvDocs

\* Objects that can be put: one with another extension, an empty one, and
\* the well-formed documents of the bucket's format.
Objects(f) ==
    {[ext |-> "txt", size |-> 1, body |-> NoBody], [ext |-> f, size |-> 0, body |-> NoBody]}
        \cup {[ext |-> f, size |-> 1, body |-> d] : d \in Docs(f)}

BucketRows(objs) == SumSeq([i \in DOMAIN objs |-> Len(objs[i].body.recs)])

Filtered(obj, f) == obj.ext # f \/ obj.size = 0

BucketFiltered(objs, f) == Cardinality({i \in DOMAIN objs : Filtered(objs[i], f)})

BucketCells(objs) == SumSeq([i \in DOMAIN objs |-> CellsOf(objs[i].body.recs)])

OverridePairs == {<<"a", "TEXT">>, <<"b.c", "VARIANT">>}

Overrides == SeqsUpTo(OverridePairs, MaxOverrides)

\* --files-scan-limit: its default, and the least limit.
DefaultLimit == 10

Limits == {1, DefaultLimit}

NoArgs == [limit |-> 0, override |-> <<>>]

NoFrame == [columns |-> <<>>, n |-> 0, data |-> <<>>]

\* The local variables of generate_schema_from_json before the call, and
\* the lines of the function passed so far.
NoLocal ==
    [s3_objects |-> <<>>, json_data |-> <<>>, is_list |-> <<>>,
     top_level_array |-> FALSE, df |-> NoFrame, schema |-> <<>>, lines |-> <<>>]

\* The command `datasource new` before it runs.
NoCli ==
    [dry_run |-> FALSE, replace |-> FALSE, backload |-> FALSE, exists |-> {},
     failing |-> "none", executed |-> <<>>, outcome |-> "none"]

----------------------------------------------------------------------------
\* The state machine.

Init ==
    /\ fmt \in {"json", "csv"}
    /\ bucket = <<>>
    /\ pc = "setup"
    /\ args = NoArgs
    /\ result = NoResult
    /\ local = NoLocal
    /\ cli = NoCli

\* An object is uploaded under the prefix, after the keys already there.
PutObject ==
    /\ pc = "setup"
    /\ Len(bucket) < MaxObjs
    /\ \E obj \in Objects(fmt) :
        /\ BucketRows(bucket) + Len(obj.body.recs) <= MaxRows
        /\ BucketCells(bucket) + CellsOf(obj.body.recs) <= MaxCells
        /\ BucketFiltered(Append(bucket, obj), fmt) <= MaxFiltered
        /\ bucket' = Append(bucket, obj)
    /\ UNCHANGED <<fmt, pc, args, result, local, cli>>

GenerateSchemaFromJson ==
    /\ pc = "setup"
    /\ fmt = "json"
    /\ \E limit \in Limits, override \in Overrides :
        /\ args' = [limit |-> limit, override |-> override]
        /\ result' = generate_schema_from_json(bucket, BucketName(fmt), fmt, limit, override)
    /\ pc' = "done"
    /\ UNCHANGED <<fmt, bucket, local, cli>>

GenerateSchemaFromCsv ==
    /\ pc = "setup"
    /\ fmt = "csv"
    /\ \E limit \in Limits, override \in Overrides :
        /\ args' = [limit |-> limit, override |-> override]
        /\ result' = generate_schema_from_csv(bucket, BucketName(fmt), fmt, limit, override)
    /\ pc' = "done"
    /\ UNCHANGED <<fmt, bucket, local, cli>>

Next == PutObject \/ GenerateSchemaFromJson \/ GenerateSchemaFromCsv

Spec == Init /\ [][Next]_vars

----------------------------------------------------------------------------
\* generate_schema_from_json line by line.

StepOverrides == {<<>>, <<(<<"a", "TEXT">>)>>}

InitSteps ==
    /\ fmt = "json"
    /\ bucket = <<>>
    /\ pc = "setup"
    /\ args = NoArgs
    /\ result = NoResult
    /\ local = NoLocal
    /\ cli = NoCli

\* The line passed, and the line that is next.
Pass(line, next, loc) ==
    /\ local' = [loc EXCEPT !.lines = Append(local.lines, line)]
    /\ pc' = next
    /\ UNCHANGED <<fmt, bucket, cli>>

\* Line 60.
JsonListObjects ==
    /\ pc = "setup"
    /\ \E override \in StepOverrides :
        args' = [limit |-> DefaultLimit, override |-> override]
    /\ Pass("60", "62",
            [local EXCEPT !.s3_objects =
                list_non_empty_objects(bucket, BucketName(fmt), fmt, DefaultLimit)])
    /\ UNCHANGED result

\* Lines 62-63.
JsonCheckSample ==
    /\ pc = "62"
    /\ Pass("62", IF NoSampleData(local.s3_objects) THEN "done" ELSE "65", local)
    /\ result' = IF NoSampleData(local.s3_objects)
                  THEN Raise("FileNotFoundError", <<>>) ELSE result
    /\ UNCHANGED args

\* Lines 65-66.
JsonLoads ==
    /\ pc = "65"
    /\ Pass("65", "68",
            [local EXCEPT !.json_data =
                [i \in DOMAIN local.s3_objects |-> local.s3_objects[i].body]])
    /\ UNCHANGED <<args, result>>

\* Line 68.
JsonIsList ==
    /\ pc = "68"
    /\ Pass("68", "70", [local EXCEPT !.is_list = is_list(local.json_data)])
    /\ UNCHANGED <<args, result>>

\* Lines 70-89 without the raise: the flags only set top_level_array.
JsonCheckStructureNoRaise ==
    /\ pc = "70"
    /\ Pass("70", "91", [local EXCEPT !.top_level_array = any(local.is_list)])
    /\ UNCHANGED <<args, result>>

\* Lines 70-89.
JsonCheckStructure ==
    /\ pc = "70"
    /\ LET mode == TopLevelArrayMode(local.is_list) IN
        /\ Pass("70", IF mode = "mixed" THEN "done" ELSE "91",
                [local EXCEPT !.top_level_array = (mode = "all")])
        /\ result' = IF mode = "mixed"
                      THEN Raise("ValueError",
                            ErrorMessage(files_without_arrays(local.is_list, local.s3_objects)))
                      ELSE result
    /\ UNCHANGED args

\* Line 91.
JsonConcat ==
    /\ pc = "91"
    /\ LET raises == \E i \in DOMAIN local.json_data : NormalizeRaises(local.json_data[i]) IN
        /\ Pass("91", IF raises THEN "done" ELSE "93",
                IF raises THEN local
                ELSE [local EXCEPT !.df =
                        convert_dtypes(concat([i \in DOMAIN local.json_data |->
                                                json_normalize(local.json_data[i])]))])
        /\ result' = IF raises THEN Raise("NotImplementedError", <<>>) ELSE result
    /\ UNCHANGED args

\* Line 93.
JsonParseDatetime ==
    /\ pc = "93"
    /\ Pass("93", "94", [local EXCEPT !.df = parse_datetime(local.df)])
    /\ UNCHANGED <<args, result>>

\* Line 94.
JsonGetSchema ==
    /\ pc = "94"
    /\ LET got == get_schema_from_df(local.df) IN
        /\ Pass("94", IF got.raised THEN "done" ELSE "95",
                [local EXCEPT !.schema = got.schema])
        /\ result' = IF got.raised THEN Raise("KeyError", <<>>) ELSE result
    /\ UNCHANGED args

\* Line 95.
JsonUpdate ==
    /\ pc = "95"
    /\ Pass("95", "97", [local EXCEPT !.schema = update(local.schema, args.override)])
    /\ UNCHANGED <<args, result>>

\* Line 97.
JsonReturn ==
    /\ pc = "97"
    /\ Pass("97", "done", local)
    /\ result' = Return({"schema", "top_level_array"}, local.schema, local.top_level_array)
    /\ UNCHANGED args

NextSteps ==
    \/ PutObject
    \/ JsonListObjects
    \/ JsonCheckSample
    \/ JsonLoads
    \/ JsonIsList
    \/ JsonCheckStructure
    \/ JsonConcat
    \/ JsonParseDatetime
    \/ JsonGetSchema
    \/ JsonUpdate
    \/ JsonReturn

SpecSteps == InitSteps /\ [][NextSteps]_vars

----------------------------------------------------------------------------
\* The command `datasource new` (pypelayer/cli.py), from the schema on.

SnowflakeObjects == {"table", "stage", "pipe"}

\* The step, if any, that fails with an error other than 'already exists'.
Failures == {"none", "table", "stage", "pipe", "attach", "backload"}

\* The buckets of the command: an empty one, or one file of one value.
CliBuckets(f) ==
    {<<>>} \cup {<<obj>> : obj \in {o \in Objects(f) :
                    BucketRows(<<o>>) = 1 /\ BucketCells(<<o>>) = 1}}

InitCli ==
    /\ fmt \in {"json", "csv"}
    /\ bucket \in CliBuckets(fmt)
    /\ pc = "setup"
    /\ args = NoArgs
    /\ result = NoResult
    /\ local = NoLocal
    /\ cli \in [dry_run : BOOLEAN, replace : BOOLEAN, backload : BOOLEAN,
                exists : SUBSET SnowflakeObjects, failing : Failures,
                executed : {<<>>}, outcome : {"none"}]

\* Lines 181-194: the schema; FileNotFoundError aborts the command, any
\* other error ends it.
CliGenerateSchema ==
    /\ pc = "setup"
    /\ args' = [limit |-> DefaultLimit, override |-> <<>>]
    /\ LET schema == IF fmt = "json"
                      THEN generate_schema_from_json(bucket, BucketName(fmt), fmt,
                                                     DefaultLimit, <<>>)
                      ELSE generate_schema_from_csv(bucket, BucketName(fmt), fmt,
                                                    DefaultLimit, <<>>)
       IN /\ result' = schema
          /\ pc' = IF schema.status = "returned" THEN "220" ELSE "end"
          /\ cli' = [cli EXCEPT !.outcome =
                        IF schema.status = "returned" THEN "running"
                        ELSE IF schema.error = "FileNotFoundError" THEN "aborted"
                        ELSE "error"]
    /\ UNCHANGED <<fmt, bucket, local>>

\* A DDL query is generated and, unless --dry-run is set, executed: errno
\* 2002 (the object exists and OR REPLACE is not in the query) aborts the
\* command, another error ends it.
DdlStep(object, query, next) ==
    /\ IF cli.dry_run
       THEN pc' = next /\ cli' = cli
       ELSE LET sent == [cli EXCEPT !.executed = Append(cli.executed, query)] IN
            IF object \in cli.exists /\ ~cli.replace
            THEN pc' = "end" /\ cli' = [sent EXCEPT !.outcome = "aborted"]
            ELSE IF cli.failing = object
            THEN pc' = "end" /\ cli' = [sent EXCEPT !.outcome = "error"]
            ELSE pc' = next /\ cli' = [sent EXCEPT !.exists = cli.exists \cup {object}]
    /\ UNCHANGED <<fmt, bucket, args, result, local>>

\* Lines 220-230.
CliTableDdl == pc = "220" /\ DdlStep("table", "table_ddl", "232")

\* Lines 232-242.
CliStageDdl == pc = "232" /\ DdlStep("stage", "stage_ddl", "244")

\* Lines 244-254.
CliPipeDdl == pc = "244" /\ DdlStep("pipe", "pipe_ddl", "256")

\* Lines 256-258: attach_sns_arn (layer.py 66-99) asks Snowflake for the
\* notification channel of the pipe and puts the bucket notification.
CliAttach ==
    /\ pc = "256"
    /\ IF cli.dry_run
       THEN pc' = "260" /\ cli' = cli
       ELSE IF cli.failing = "attach"
       THEN /\ pc' = "end"
            /\ cli' = [cli EXCEPT !.outcome = "error",
                    !.executed = Append(cli.executed, "select_notification_channel")]
       ELSE /\ pc' = "260"
            /\ cli' = [cli EXCEPT !.executed =
                    cli.executed \o <<"select_notification_channel", "put_bucket_notification">>]
    /\ UNCHANGED <<fmt, bucket, args, result, local>>

\* Lines 260-265 with the query executed whenever --backload is set.
CliBackloadIgnoringDryRun ==
    /\ pc = "260"
    /\ IF cli.backload
       THEN /\ pc' = "267"
            /\ cli' = [cli EXCEPT !.executed = Append(cli.executed, "backload_copy")]
       ELSE pc' = "267" /\ cli' = cli
    /\ UNCHANGED <<fmt, bucket, args, result, local>>

\* Lines 260-265.
CliBackload ==
    /\ pc = "260"
    /\ IF cli.backload /\ ~cli.dry_run
       THEN LET sent == [cli EXCEPT !.executed = Append(cli.executed, "backload_copy")] IN
            IF cli.failing = "backload"
            THEN pc' = "end" /\ cli' = [sent EXCEPT !.outcome = "error"]
            ELSE pc' = "267" /\ cli' = sent
       ELSE pc' = "267" /\ cli' = cli
    /\ UNCHANGED <<fmt, bucket, args, result, local>>

\* Line 267.
CliDone ==
    /\ pc = "267"
    /\ pc' = "end"
    /\ cli' = [cli EXCEPT !.outcome = "done"]
    /\ UNCHANGED <<fmt, bucket, args, result, local>>

NextCli ==
    \/ CliGenerateSchema
    \/ CliTableDdl
    \/ CliStageDdl
    \/ CliPipeDdl
    \/ CliAttach
    \/ CliBackload
    \/ CliDone

SpecCli == InitCli /\ [][NextCli]_vars

----------------------------------------------------------------------------
\* What the properties are stated about.

Done == pc = "done"

Returned == Done /\ result.status = "returned"

Raised(error) == Done /\ result.status = "raised" /\ result.error = error

Lookup(schema, key) == schema[CHOOSE i \in DOMAIN schema : schema[i][1] = key][2]

HasType(schema, key, type) == \E i \in DOMAIN schema : schema[i] = <<key, type>>

\* The objects of the bucket that the call samples: among the first `limit`
\* listed, those with the extension of the format and a size above zero.
SampleIdx ==
    {i \in DOMAIN bucket : i <= args.limit /\ bucket[i].ext = fmt /\ bucket[i].size > 0}

ArrayIdx == {i \in SampleIdx : bucket[i].body.root = "array"}

NonArrayIdx == SampleIdx \ ArrayIdx

\* The sampled files whose root is neither an object nor an array.
ScalarIdx == {i \in SampleIdx : bucket[i].body.root = "scalar"}

Mixed == ArrayIdx # {} /\ NonArrayIdx # {}

\* container + "/" + key
Identifier(i) == BucketName(fmt) \o "/" \o Prefix \o "f" \o ToString(i) \o "." \o fmt

Named(message) == {i \in DOMAIN bucket : Identifier(i) \in Range(message)}

SampledObjects == list_non_empty_objects(bucket, BucketName(fmt), fmt, args.limit)

SampledFrames ==
    [i \in DOMAIN SampledObjects |->
        IF fmt = "json" THEN json_normalize(SampledObjects[i].body)
        ELSE read_csv(SampledObjects[i].body)]

\* What the same call returns or raises under other overrides.
CallWith(override) ==
    IF fmt = "json"
    THEN generate_schema_from_json(bucket, BucketName(fmt), fmt, args.limit, override)
    ELSE generate_schema_from_csv(bucket, BucketName(fmt), fmt, args.limit, override)

OverriddenColumns == {args.override[i][1] : i \in DOMAIN args.override}

\* The column that a leaf of a JSON document, or a header field, stands for.
ColumnOf(path) == IF path = PathA THEN "a" ELSE IF path = PathB THEN "b.c" ELSE "b.d.e"

ObservedColumns ==
    IF fmt = "json"
    THEN {ColumnOf(bucket[i].body.recs[r][k].path) :
            <<i, r, k>> \in {t \in SampleIdx \X (1..MaxRows + 1) \X (1..2) :
                /\ t[2] \in DOMAIN bucket[t[1]].body.recs
                /\ t[3] \in DOMAIN bucket[t[1]].body.recs[t[2]]}}
    ELSE UNION {Range(bucket[i].body.header) : i \in SampleIdx}

\* The values observed for a column in the sampled files, as written there.
RawKinds(c) ==
    IF fmt = "json"
    THEN {bucket[t[1]].body.recs[t[2]][t[3]].v :
            t \in {u \in SampleIdx \X (1..MaxRows + 1) \X (1..2) :
                /\ u[2] \in DOMAIN bucket[u[1]].body.recs
                /\ u[3] \in DOMAIN bucket[u[1]].body.recs[u[2]]
                /\ ColumnOf(bucket[u[1]].body.recs[u[2]][u[3]].path) = c}}
    ELSE {bucket[t[1]].body.recs[t[2]][t[3]] :
            t \in {u \in SampleIdx \X (1..MaxRows + 1) \X (1..2) :
                /\ u[2] \in DOMAIN bucket[u[1]].body.recs
                /\ u[3] \in DOMAIN bucket[u[1]].body.header
                /\ bucket[u[1]].body.header[u[3]] = c}}

NonNullKinds(c) == RawKinds(c) \ {"null"}

\* The frames of the call: pooled, with nullable dtypes, after promotion.
PooledFrame == concat(SampledFrames)

ConvertedFrame == convert_dtypes(PooledFrame)

FinalFrame == InferenceFrame(SampledFrames)

InferredColumns == ObservedColumns \ OverriddenColumns

----------------------------------------------------------------------------
\* C1: both generate_schema_from_csv and generate_schema_from_json raise
\* FileNotFoundError exactly when list_non_empty_objects returns an empty
\* list; then nothing is returned, not even an empty schema.
C1_NoSampleDataIffEmptySample ==
    Done =>
        /\ Raised("FileNotFoundError") <=> (SampledObjects = <<>>)
        /\ SampledObjects = <<>> => result.status = "raised" /\ result.keys = {}

C1_Witness ==
    /\ Raised("FileNotFoundError")
    /\ Len(bucket) = 2
    /\ fmt = "csv"

\* C2: for a non-empty sample, generate_schema_from_json raises ValueError
\* exactly when some but not all sampled documents have an array as root.
C2_ValueErrorIffMixed ==
    (Done /\ fmt = "json" /\ SampleIdx # {}) => (Raised("ValueError") <=> Mixed)

C2_Witness ==
    /\ Raised("ValueError")
    /\ Cardinality(SampleIdx) = 3

\* C3 as claimed: the error names exactly the non-array files when arrays
\* are the majority of the sample and exactly the array files when
\* non-arrays are the majority.
C3_NamesTheMinority ==
    Raised("ValueError") =>
        /\ Cardinality(ArrayIdx) > Cardinality(NonArrayIdx)
                => Named(result.message) = NonArrayIdx
        /\ Cardinality(NonArrayIdx) > Cardinality(ArrayIdx)
                => Named(result.message) = ArrayIdx

\* C3 as amended: the error names, by container + "/" + key, exactly the
\* sampled files whose root is not an array, whichever kind is the majority.
C3_NamesTheNonArrayFiles ==
    Raised("ValueError") => Named(result.message) = NonArrayIdx

C3_Witness ==
    /\ Raised("ValueError")
    /\ Cardinality(NonArrayIdx) = 2
    /\ Cardinality(ArrayIdx) = 1

\* C4: a successful generate_schema_from_json returns top_level_array true
\* exactly when every sampled root is an array and false exactly when none
\* is; the overrides do not change it.
C4_TopLevelArrayIffAllArrays ==
    (Returned /\ fmt = "json") =>
        /\ result.top_level_array <=> (NonArrayIdx = {})
        /\ ~result.top_level_array <=> (ArrayIdx = {})
        /\ result.top_level_array = CallWith(<<>>).top_level_array

C4_Witness ==
    /\ Returned
    /\ fmt = "json"
    /\ result.top_level_array
    /\ Cardinality(SampleIdx) = 2
    /\ args.override # <<>>

\* C5: without overrides the keys of the returned schema are the columns
\* observed in the sampled files (leaf paths of the JSON records, header
\* fields of the CSV files), each exactly once.
C5_KeysAreObservedColumns ==
    (Returned /\ args.override = <<>>) =>
        /\ SchemaKeys(result.schema) = ObservedColumns
        /\ Cardinality(SchemaKeys(result.schema)) = Len(result.schema)

C5_Witness ==
    /\ Returned
    /\ fmt = "json"
    /\ args.override = <<>>
    /\ \E i, j \in SampleIdx :
        /\ bucket[i].body.recs = <<(<<[path |-> PathA, v |-> "int"]>>)>>
        /\ bucket[j].body.recs = <<(<<[path |-> PathB, v |-> "str"]>>)>>
    /\ SchemaKeys(result.schema) = {"a", "b.c"}

\* C6: every overridden column has its override's token in the returned
\* schema, whatever was inferred for it and whether or not the token is in
\* the type table; giving an override twice changes nothing; every other
\* column keeps its inferred type.
C6_OverridesAreAbsoluteAndIdempotent ==
    Returned =>
        LET inferred == CallWith(<<>>).schema IN
        /\ \A i \in DOMAIN args.override :
            Lookup(result.schema, args.override[i][1]) = args.override[i][2]
        /\ \A p \in OverridePairs :
            args.override = <<p, p>> => result = CallWith(<<p>>)
        /\ SchemaKeys(result.schema) = SchemaKeys(inferred) \cup OverriddenColumns
        /\ \A c \in SchemaKeys(inferred) \ OverriddenColumns :
            Lookup(result.schema, c) = Lookup(inferred, c)

C6_Witness ==
    /\ Returned
    /\ args.override = <<(<<"a", "TEXT">>), (<<"a", "TEXT">>)>>
    /\ SchemaKeys(CallWith(<<>>).schema) = {"a", "b.c"}
    /\ Lookup(CallWith(<<>>).schema, "a") = "NUMBER(38,0)"
    /\ Lookup(result.schema, "a") = "TEXT"

\* C7 as claimed: a column whose every observed value is null or absent is
\* VARIANT, and only such a column is classified by the all-null rule.
C7_AllNullRuleOnlyForNullColumns ==
    Returned =>
        \A c \in InferredColumns :
            /\ NonNullKinds(c) = {} => Lookup(result.schema, c) = "VARIANT"
            /\ is_empty(FinalFrame, c) => NonNullKinds(c) = {}

\* C8 as claimed: a column classified String becomes Timestamp when every
\* non-null value parses under the timestamp format and stays String when a
\* single value does not.
C8_PromotionIsAllOrNothing ==
    Returned =>
        \A c \in InferredColumns :
            ConvertedFrame.data[c].dtype = "string" =>
                Lookup(result.schema, c) =
                    IF NonNullKinds(c) \subseteq {"ts"}
                    THEN "TIMESTAMP WITHOUT TIME ZONE"
                    ELSE "VARCHAR"

\* The least upper bound in Boolean < Integer < Float < String.
Rank(k) == IF k = "bool" THEN 1 ELSE IF k = "int" THEN 2 ELSE IF k = "float" THEN 3 ELSE 4

LubToken(kinds) ==
    LET top == CHOOSE r \in 1..4 :
                /\ \E k \in kinds : Rank(k) = r
                /\ \A k \in kinds : Rank(k) <= r
    IN IF top = 1 THEN "BOOLEAN"
       ELSE IF top = 2 THEN "NUMBER(38,0)"
       ELSE IF top = 3 THEN "NUMBER(38,8)"
       ELSE IF kinds \subseteq {"ts"} THEN "TIMESTAMP WITHOUT TIME ZONE"
       ELSE "VARCHAR"

\* C9 as claimed: a column with a non-null value and no compound value has
\* the least upper bound of the types of its non-null values (columns with
\* empty strings left aside).
C9_TypeIsLeastUpperBound ==
    Returned =>
        \A c \in InferredColumns :
            (NonNullKinds(c) # {} /\ NonNullKinds(c) \cap {"list", "empty"} = {}) =>
                Lookup(result.schema, c) = LubToken(NonNullKinds(c))

Family(k) ==
    IF k = "bool" THEN "bool" ELSE IF k \in {"int", "float"} THEN "num" ELSE "text"

\* How one CSV file reads a column: as booleans or numbers when all its
\* non-empty fields are, as text otherwise.
FileFamily(i, c) ==
    LET fields == {bucket[i].body.recs[t[1]][t[2]] :
                    t \in {u \in (1..MaxRows + 1) \X (1..2) :
                        /\ u[1] \in DOMAIN bucket[i].body.recs
                        /\ u[2] \in DOMAIN bucket[i].body.header
                        /\ bucket[i].body.header[u[2]] = c}} \ {"null"}
    IN IF fields = {} THEN "none"
       ELSE IF fields = {"bool"} THEN "bool"
       ELSE IF fields \subseteq {"int", "float"} THEN "num"
       ELSE "text"

Families(c) ==
    IF fmt = "json" THEN {Family(k) : k \in NonNullKinds(c)}
    ELSE {FileFamily(i, c) : i \in SampleIdx} \ {"none"}

FamilyToken(c) ==
    LET kinds == NonNullKinds(c) IN
    IF Families(c) = {"bool"} THEN "BOOLEAN"
    ELSE IF Families(c) = {"num"}
         THEN (IF "float" \in kinds THEN "NUMBER(38,8)" ELSE "NUMBER(38,0)")
    ELSE IF Families(c) = {"text"}
         THEN (IF ~(kinds \subseteq {"ts", "tstz", "empty"}) THEN "VARCHAR"
               ELSE IF "ts" \in kinds /\ "tstz" \notin kinds
                    THEN "TIMESTAMP WITHOUT TIME ZONE"
               ELSE "VARIANT")
    ELSE "VARIANT"

Reverse(seq) == [i \in DOMAIN seq |-> seq[Len(seq) + 1 - i]]

\* What the call gives when the objects are listed in the opposite order.
ReversedCall ==
    IF fmt = "json"
    THEN generate_schema_from_json(Reverse(bucket), BucketName(fmt), fmt, args.limit, args.override)
    ELSE generate_schema_from_csv(Reverse(bucket), BucketName(fmt), fmt, args.limit, args.override)

\* C9 as amended: booleans give BOOLEAN, numbers give NUMBER(38,0) or, when
\* one has a fractional part, NUMBER(38,8), strings give VARCHAR (or what
\* the promoter makes of them), and any mixture of booleans, numbers and
\* strings gives VARIANT; fields of one CSV file that mix kinds are strings.
\* The order of the files does not matter.
C9_TypeByFamilyElseVariant ==
    Returned =>
        \A c \in InferredColumns :
            (NonNullKinds(c) # {} /\ "list" \notin NonNullKinds(c)) =>
                /\ Lookup(result.schema, c) = FamilyToken(c)
                /\ Len(bucket) <= args.limit =>
                    /\ ReversedCall.status = "returned"
                    /\ HasType(ReversedCall.schema, c, Lookup(result.schema, c))

C9_Witness ==
    /\ Returned
    /\ fmt = "csv"
    /\ args.override = <<>>
    /\ Len(bucket) = 2
    /\ bucket[1].body = [root |-> "csv", header |-> <<"a">>, recs |-> <<(<<"int">>)>>]
    /\ bucket[2].body = [root |-> "csv", header |-> <<"a">>, recs |-> <<(<<"str">>)>>]
    /\ result.schema = <<(<<"a", "VARIANT">>)>>

\* C10: a column of a JSON sample with an array among its values is VARIANT
\* whatever else is observed for it, in any record of any file, and the
\* datetime promotion leaves the column as it was (the sampled roots being
\* all arrays or all objects).
C10_CompoundForcesVariant ==
    (Done /\ fmt = "json" /\ ~Mixed /\ ScalarIdx = {}) =>
        \A c \in InferredColumns :
            "list" \in RawKinds(c) =>
                /\ Returned \/ Raised("KeyError")
                /\ Returned => Lookup(result.schema, c) = "VARIANT"
                /\ SchemaDtype(FinalFrame, c) = "object"
                /\ FinalFrame.data[c] = ConvertedFrame.data[c]

C10_Witness ==
    /\ Returned
    /\ fmt = "json"
    /\ Cardinality(SampleIdx) = 2
    /\ RawKinds("a") = {"list", "ts"}
    /\ Lookup(result.schema, "a") = "VARIANT"

\* The tokens of the type table.
TableTokens == Range(PANDAS_TO_SNOWFLAKE)

\* C11: the overrides are not validated and never make a call fail: the
\* call raises with them exactly when it raises without them, and with the
\* same error; an override of a column that inference did not find adds the
\* column with its token, and a token outside the type table is kept as
\* given.
C11_OverridesNeverFail ==
    Done =>
        LET plain == CallWith(<<>>) IN
        /\ result.status = plain.status
        /\ result.error = plain.error
        /\ result.message = plain.message
        /\ Returned =>
            \A i \in DOMAIN args.override :
                /\ args.override[i][1] \in SchemaKeys(result.schema)
                /\ \E t \in {args.override[j][2] : j \in DOMAIN args.override} :
                        HasType(result.schema, args.override[i][1], t)

C11_Witness ==
    /\ Returned
    /\ fmt = "csv"
    /\ args.override = <<(<<"b.c", "VARIANT">>), (<<"a", "TEXT">>)>>
    /\ SchemaKeys(CallWith(<<>>).schema) = {"b"}
    /\ "TEXT" \notin TableTokens
    /\ result.schema = <<(<<"b", "VARCHAR">>), (<<"b.c", "VARIANT">>), (<<"a", "TEXT">>)>>

\* Where a column of the returned schema stands.
IndexOf(schema, c) == CHOOSE i \in DOMAIN schema : schema[i][1] = c

\* The places (file, record, key) where the sampled files hold a column.
Places(c) ==
    IF fmt = "json"
    THEN {t \in SampleIdx \X (1..MaxRows + 1) \X (1..2) :
            /\ t[2] \in DOMAIN bucket[t[1]].body.recs
            /\ t[3] \in DOMAIN bucket[t[1]].body.recs[t[2]]
            /\ ColumnOf(bucket[t[1]].body.recs[t[2]][t[3]].path) = c}
    ELSE {t \in SampleIdx \X {1} \X (1..2) :
            /\ t[3] \in DOMAIN bucket[t[1]].body.header
            /\ bucket[t[1]].body.header[t[3]] = c}

\* A place as a number: files first, then records, then keys.
Encounter(t) == (t[1] * (MaxRows + 2) + t[2]) * 5 + t[3]

\* The same with the keys of nested objects after the other keys of their
\* record.
EncounterTopFirst(t) ==
    LET nested == fmt = "json" /\ Len(bucket[t[1]].body.recs[t[2]][t[3]].path) > 1
    IN (t[1] * (MaxRows + 2) + t[2]) * 5 + (IF nested THEN 2 + t[3] ELSE t[3])

FirstEncounter(c) ==
    CHOOSE n \in {Encounter(t) : t \in Places(c)} :
        \A m \in {Encounter(t) : t \in Places(c)} : n <= m

FirstEncounterTopFirst(c) ==
    CHOOSE n \in {EncounterTopFirst(t) : t \in Places(c)} :
        \A m \in {EncounterTopFirst(t) : t \in Places(c)} : n <= m

\* C12 as claimed: the columns of the returned schema stand in the order in
\* which the sampled files, their records and the keys of each record are
\* encountered.
C12_EncounterOrder ==
    Returned =>
        \A c, d \in ObservedColumns :
            FirstEncounter(c) < FirstEncounter(d)
                => IndexOf(result.schema, c) < IndexOf(result.schema, d)

\* C12 as amended: files in sampling order, records in order, and within a
\* JSON record the keys whose values are not objects before the leaves of
\* nested objects; a column first seen in a later file comes after those of
\* the earlier files; an override leaves an observed column where it is and
\* puts a column that was not observed after the observed ones.
C12_FirstAppearanceTopLevelKeysFirst ==
    Returned =>
        LET inferred == CallWith(<<>>).schema IN
        /\ \A c, d \in ObservedColumns :
            /\ FirstEncounterTopFirst(c) < FirstEncounterTopFirst(d)
                    => IndexOf(result.schema, c) < IndexOf(result.schema, d)
            /\ (\E i \in SampleIdx :
                    /\ \E t \in Places(c) : t[1] < i
                    /\ \A t \in Places(d) : t[1] >= i)
                    => IndexOf(result.schema, c) < IndexOf(result.schema, d)
        /\ Len(inferred) <= Len(result.schema)
        /\ \A i \in DOMAIN inferred : result.schema[i][1] = inferred[i][1]
        /\ \A c \in ObservedColumns, d \in OverriddenColumns \ ObservedColumns :
            IndexOf(result.schema, c) < IndexOf(result.schema, d)

C12_Witness ==
    /\ Returned
    /\ fmt = "json"
    /\ Cardinality(SampleIdx) = 1
    /\ \E i \in SampleIdx :
        bucket[i].body.recs =
            <<(<<[path |-> PathB, v |-> "str"], [path |-> PathA, v |-> "int"]>>)>>
    /\ args.override = <<(<<"a", "TEXT">>)>>
    /\ result.schema = <<(<<"a", "TEXT">>), (<<"b.c", "VARCHAR">>)>>

\* The rows and columns that a parsed document is to give: a row per
\* element of a root array, one row for another root; a column per leaf,
\* named by the keys on the way to it; every leaf, arrays included, the
\* value of its row in its column.
FlattenedAsStated(body, frame) ==
    /\ frame.n = (IF body.root = "array" THEN Len(body.recs) ELSE 1)
    /\ Range(frame.columns) =
            {ColumnOf(body.recs[t[1]][t[2]].path) :
                t \in {u \in (1..MaxRows + 1) \X (1..2) :
                    /\ u[1] \in DOMAIN body.recs
                    /\ u[2] \in DOMAIN body.recs[u[1]]}}
    /\ \A r \in DOMAIN body.recs : \A k \in DOMAIN body.recs[r] :
            /\ frame.data[ColumnOf(body.recs[r][k].path)].vals[r] = body.recs[r][k].v
            /\ body.recs[r][k].v = "list"
                    => frame.data[ColumnOf(body.recs[r][k].path)].dtype = "object"

\* C13 as claimed: every sampled document is parsed into flat records, one
\* per element of a root array and exactly one for any other root.
C13_EveryDocumentYieldsRecords ==
    (Done /\ fmt = "json" /\ SampleIdx # {} /\ ~Mixed) =>
        /\ ~Raised("NotImplementedError")
        /\ \A k \in DOMAIN SampledObjects :
                FlattenedAsStated(SampledObjects[k].body, SampledFrames[k])

\* C13 as amended: a root array gives one flat record per element and a
\* root object exactly one, flattened as stated; a root that is neither (a
\* number, a string, a boolean, null) gives no record: the call raises
\* NotImplementedError.
C13_ObjectsAndArraysYieldRecords ==
    (Done /\ fmt = "json" /\ SampleIdx # {} /\ ~Mixed) =>
        IF ScalarIdx # {}
        THEN Raised("NotImplementedError")
        ELSE /\ ~Raised("NotImplementedError")
             /\ \A k \in DOMAIN SampledObjects :
                    FlattenedAsStated(SampledObjects[k].body, SampledFrames[k])
             /\ PooledFrame.n =
                    SumSeq([k \in DOMAIN SampledObjects |->
                        IF SampledObjects[k].body.root = "array"
                        THEN Len(SampledObjects[k].body.recs) ELSE 1])

C13_Witness ==
    /\ Returned
    /\ fmt = "json"
    /\ args.override = <<>>
    /\ Cardinality(SampleIdx) = 1
    /\ \E i \in SampleIdx :
        /\ bucket[i].body.root = "array"
        /\ bucket[i].body.recs =
            <<(<<[path |-> PathD, v |-> "str"]>>), (<<[path |-> PathB, v |-> "list"]>>)>>
    /\ result.schema = <<(<<"b.d.e", "VARCHAR">>), (<<"b.c", "VARIANT">>)>>

\* The objects under the prefix that match the suffix and are not empty.
MatchingIdx == {i \in DOMAIN bucket : bucket[i].ext = fmt /\ bucket[i].size > 0}

Min(m, n) == IF m < n THEN m ELSE n

\* C14 as claimed: the sampler returns up to `limit` of the non-empty
\* matching objects under the prefix, and an empty list only when there is
\* none.
C14_SamplesTheMatchingObjects ==
    Done =>
        /\ Len(SampledObjects) = Min(args.limit, Cardinality(MatchingIdx))
        /\ SampledObjects = <<>> => MatchingIdx = {}

\* C14 as amended: the sampler returns, in listing order, the objects among
\* the first `limit` listed under the prefix that match the suffix and are
\* not empty: at most `limit` objects, and none when the first `limit`
\* listed objects are all empty or of another suffix.
C14_SamplesAmongTheFirstListed ==
    Done =>
        /\ Len(SampledObjects) <= args.limit
        /\ Len(SampledObjects) = Cardinality(SampleIdx)
        /\ \A k \in DOMAIN SampledObjects :
            \E i \in SampleIdx :
                /\ SampledObjects[k].key = KeyOf(i, fmt)
                /\ SampledObjects[k].bucket_name = BucketName(fmt)
                /\ SampledObjects[k].body = bucket[i].body
                /\ bucket[i].size > 0
                /\ k = Cardinality({j \in SampleIdx : j <= i})
        /\ Raised("FileNotFoundError") <=> (SampleIdx = {})

C14_Witness ==
    /\ Raised("FileNotFoundError")
    /\ args.limit = 1
    /\ Len(bucket) = 2
    /\ bucket[1].ext = "txt"
    /\ MatchingIdx = {2}
    /\ SampledObjects = <<>>

\* The six tokens that the type mapping is to produce.
SixTokens ==
    {"NUMBER(38,0)", "NUMBER(38,8)", "VARCHAR", "BOOLEAN", "VARIANT",
     "TIMESTAMP WITHOUT TIME ZONE"}

\* The columns whose dtype, after conversion and promotion, the table lacks.
UnmappedColumns ==
    {c \in Range(FinalFrame.columns) :
        SchemaDtype(FinalFrame, c) \notin {"Int64", "Float64", "string", "boolean",
                                           "object", "datetime64[ns]"}}

\* C15: every token of a returned schema that no override gave is one of
\* the six tokens of the table; a call that reaches the lookup with a column
\* whose dtype has no entry raises KeyError and returns no schema, whether
\* or not that column is overridden.
C15_TokensFromTableOrAbort ==
    /\ Returned =>
        \A i \in DOMAIN result.schema :
            result.schema[i][1] \notin OverriddenColumns => result.schema[i][2] \in SixTokens
    /\ (Done /\ SampleIdx # {} /\ ~Mixed /\ ScalarIdx = {}) =>
        IF UnmappedColumns # {}
        THEN Raised("KeyError") /\ result.schema = <<>> /\ result.keys = {}
        ELSE Returned

C15_Witness ==
    /\ Raised("KeyError")
    /\ fmt = "csv"
    /\ RawKinds("a") = {"tstz"}
    /\ RawKinds("b") = {"str"}
    /\ args.override = <<(<<"a", "TEXT">>)>>

\* The lines of generate_schema_from_json that change state, in order.
JsonLines == <<"60", "62", "65", "68", "70", "91", "93", "94", "95", "97">>

Passed(line) == line \in Range(local.lines)

\* C16: generate_schema_from_json passes its lines in one order; the check
\* of the is-array flags (line 70) is passed before the frames of the files
\* are merged (line 91); a call on a mixed sample ends at the check with
\* ValueError, without merging, inference, promotion or overrides and
\* without a schema; the overrides are applied (line 95) to the schema that
\* inference and promotion gave.  The call ends as the function computed
\* at once does.
C16_CheckThenMergeThenOverride ==
    /\ Len(local.lines) <= Len(JsonLines)
    /\ local.lines = SubSeq(JsonLines, 1, Len(local.lines))
    /\ Passed("91") => Passed("70") /\ ~Mixed
    /\ (Passed("70") /\ Mixed) =>
        /\ Raised("ValueError")
        /\ local.lines = SubSeq(JsonLines, 1, 5)
        /\ local.df = NoFrame
        /\ local.schema = <<>>
        /\ result.schema = <<>> /\ result.keys = {}
    /\ ~Passed("95") => local.schema \in {<<>>, CallWith(<<>>).schema}
    /\ pc = "95" => local.df = FinalFrame /\ local.schema = CallWith(<<>>).schema
    /\ Passed("95") => local.schema = update(CallWith(<<>>).schema, args.override)
    /\ Done => result = CallWith(args.override)

C16_Witness ==
    /\ Raised("ValueError")
    /\ Cardinality(SampleIdx) = 3
    /\ args.override # <<>>
    /\ local.lines = <<"60", "62", "65", "68", "70">>

\* The side effects of a whole run, in the order stated.
SideEffects(backload) ==
    <<"table_ddl", "stage_ddl", "pipe_ddl", "select_notification_channel",
      "put_bucket_notification">> \o (IF backload THEN <<"backload_copy">> ELSE <<>>)

ObjectOf(query) ==
    IF query = "table_ddl" THEN "table" ELSE IF query = "stage_ddl" THEN "stage" ELSE "pipe"

\* C17: with --dry-run nothing is executed on Snowflake and no bucket
\* notification is put, whatever the other options; without it the side
\* effects happen in the order table DDL, stage DDL, pipe DDL, notification,
\* and the backload query only with --backload; a step that fails, with
\* 'already exists' or otherwise, is the last one that runs.
C17_DryRunExecutesNothingElseInOrder ==
    /\ cli.dry_run => cli.executed = <<>>
    /\ Len(cli.executed) <= Len(SideEffects(cli.backload))
    /\ cli.executed = SubSeq(SideEffects(cli.backload), 1, Len(cli.executed))
    /\ result.status # "returned" => cli.executed = <<>>
    /\ (cli.outcome = "done" /\ ~cli.dry_run) => cli.executed = SideEffects(cli.backload)
    /\ (cli.outcome = "aborted" /\ result.status = "returned") =>
        /\ pc = "end"
        /\ ~cli.dry_run /\ ~cli.replace
        /\ cli.executed # <<>>
        /\ cli.executed[Len(cli.executed)] \in {"table_ddl", "stage_ddl", "pipe_ddl"}
        /\ ObjectOf(cli.executed[Len(cli.executed)]) \in cli.exists
    /\ cli.outcome = "error" /\ result.status = "returned" =>
        /\ pc = "end"
        /\ cli.executed # <<>>
        /\ cli.executed[Len(cli.executed)] # "put_bucket_notification"

C17_Witness ==
    /\ cli.outcome = "aborted"
    /\ cli.backload
    /\ cli.executed = <<"table_ddl", "stage_ddl">>
    /\ cli.exists = {"table", "stage", "pipe"}

====
